---- MODULE Spec2Model ----
(***************************************************************************)
(* A model of the monkey interpreter: the Pratt parser (package parser),   *)
(* the tree-walking evaluator (package evaluator) and the environment      *)
(* (package object).                                                       *)
(*                                                                         *)
(* Text is modelled as a sequence of one-character strings, so that        *)
(* strconv.ParseInt, string concatenation and len() are computed on the    *)
(* characters.  Integers are unbounded here; the literals of the model     *)
(* stay far from the 64-bit limits.                                        *)
(***************************************************************************)
EXTENDS Integers, Sequences, FiniteSets, TLC

VARIABLES
    input,      \* the token stream the lexer hands out (then EOF for ever)
    pos,        \* Parser.currT is token pos, Parser.peekT is token pos+1
    errors,     \* Parser.errors
    program,    \* ast.Program.Statements built so far by ParseProgram
    pending,    \* the statement parseStatment is about to return
    ppc,        \* where the line is: in ParseProgram ("loop", "scan",
                \* "advance"), parsed ("done"), evaluated or skipped
                \* ("evaluated"), or dead of a panic ("crashed")
    heap,       \* the environments: id -> [store, outer]
    nid,        \* number of objects allocated so far (object identity)
    output,     \* what the last call of Eval returned
    trace,      \* the calls and returns of Eval during the last evaluation
    lines       \* number of lines the driver has read

vars == <<input, pos, errors, program, pending, ppc,
          heap, nid, output, trace, lines>>

parserVars == <<input, pos, errors, program, pending, ppc>>
evalVars == <<heap, nid, output, trace, lines>>

(***************************************************************************)
(* package token                                                           *)
(***************************************************************************)
tk(type, lit) == [Type |-> type, Literal |-> lit]

EOFTok == tk("EOF", <<>>)

\* Lexer.NextToken: the i-th token of the input, EOF from the end on.
TokAt(toks, i) == IF i <= Len(toks) THEN toks[i] ELSE EOFTok

\* the Go string made of the characters cs
RECURSIVE Join(_)
Join(cs) == IF cs = <<>> THEN "" ELSE Head(cs) \o Join(Tail(cs))

(***************************************************************************)
(* package parser: precedences                                             *)
(***************************************************************************)
LOWEST == 1
EQUALS == 2
LESSGREATER == 3
SUM == 4
PRODUCT == 5
PREFIX == 6
CALL == 7
INDEX == 8

precedences ==
    [t \in {"==", "!=", "<", ">", "+", "-", "*", "/", "(", "["} |->
        CASE t \in {"==", "!="} -> EQUALS
          [] t \in {"<", ">"} -> LESSGREATER
          [] t \in {"+", "-"} -> SUM
          [] t \in {"*", "/"} -> PRODUCT
          [] t = "(" -> CALL
          [] t = "[" -> INDEX]

prefixParseFns ==
    {"IDENTIFER", "INT", "!", "-", "TRUE", "FALSE", "(", "IF", "FUNCTION",
     "STRING", "[", "{"}

infixParseFns == {"+", "-", "*", "/", "==", "!=", "<", ">", "(", "["}

(***************************************************************************)
(* package ast: nodes are records tagged by kind.  The Token field of a    *)
(* node is left out: only the rendering of a node reads it.                *)
(***************************************************************************)
NIL == [kind |-> "nil"]
\* (*ast.LetStatement)(nil) inside an ast.Statement: it is not == nil
NilLet == [kind |-> "nilLet"]

Identifier(v) == [kind |-> "Identifier", Value |-> v]
IntegerLiteral(v) == [kind |-> "IntegerLiteral", Value |-> v]
BooleanLit(v) == [kind |-> "Boolean", Value |-> v]
StringLiteral(v) == [kind |-> "StringLiteral", Value |-> v]
PrefixExpression(op, r) == [kind |-> "PrefixExpression", Operator |-> op, Right |-> r]
InfixExpression(op, l, r) ==
    [kind |-> "InfixExpression", Operator |-> op, Left |-> l, Right |-> r]
IfExpression(c, t, e) ==
    [kind |-> "IfExpression", Condition |-> c, Consequence |-> t, Alternative |-> e]
FunctionLiteral(ps, b) == [kind |-> "FunctionLiteral", Params |-> ps, Body |-> b]
CallExpression(f, as) == [kind |-> "CallExpression", Func |-> f, Args |-> as]
ArrayLiteral(es) == [kind |-> "ArrayLiteral", Elements |-> es]
IndexExpression(l, i) == [kind |-> "IndexExpression", Left |-> l, Index |-> i]
\* Pairs is a Go map keyed by the key node; the sequence keeps the order in
\* which parseHashLiteral inserted the pairs.
HashLiteral(ps) == [kind |-> "HashLiteral", Pairs |-> ps]
LetStatement(n, v) == [kind |-> "LetStatement", Name |-> n, Value |-> v]
ReturnStatement(v) == [kind |-> "ReturnStatement", ReturnValue |-> v]
ExpressionStatement(e) == [kind |-> "ExpressionStatement", Expression |-> e]
BlockStatement(ss) == [kind |-> "BlockStatement", Statements |-> ss]
Program(ss) == [kind |-> "Program", Statements |-> ss]

(***************************************************************************)
(* package parser.  A parser state p is [pos, errors, div, derr]: currT    *)
(* and peekT are the tokens pos and pos+1; div records that a loop         *)
(* scanning for ";" met none and so never left, derr the errors recorded   *)
(* when it was entered.                                                    *)
(***************************************************************************)
CurrT(toks, p) == TokAt(toks, p.pos)
PeekT(toks, p) == TokAt(toks, p.pos + 1)

\* Once currT and peekT are both EOF another nextToken changes neither.
nextToken(toks, p) ==
    [p EXCEPT !.pos = IF p.pos > Len(toks) THEN p.pos ELSE p.pos + 1]

currTIs(toks, p, t) == CurrT(toks, p).Type = t
peekTokenIs(toks, p, t) == PeekT(toks, p).Type = t

peekError(toks, p, t) ==
    [p EXCEPT !.errors = Append(@, "expected next token to be " \o t \o ", got "
                                    \o PeekT(toks, p).Type \o " instead")]

noPrefixParseFnError(p, t) ==
    [p EXCEPT !.errors = Append(@, "no prefix parse function found for " \o t)]

\* expectPeek: [ok, p]
expectPeek(toks, p, t) ==
    IF peekTokenIs(toks, p, t)
    THEN [ok |-> TRUE, p |-> nextToken(toks, p)]
    ELSE [ok |-> FALSE, p |-> peekError(toks, p, t)]

peekPrecendence(toks, p) ==
    IF PeekT(toks, p).Type \in DOMAIN precedences
    THEN precedences[PeekT(toks, p).Type] ELSE LOWEST

currPrecendenceLowest(toks, p) == LOWEST

currPrecendence(toks, p) ==
    IF CurrT(toks, p).Type \in DOMAIN precedences
    THEN precedences[CurrT(toks, p).Type] ELSE LOWEST

\* strconv.ParseInt(lit, 0, 64) on a run of digits: a leading 0 followed by
\* more digits selects base 8, anything else base 10.
DigitVal(c) ==
    CASE c = "0" -> 0 [] c = "1" -> 1 [] c = "2" -> 2 [] c = "3" -> 3
      [] c = "4" -> 4 [] c = "5" -> 5 [] c = "6" -> 6 [] c = "7" -> 7
      [] c = "8" -> 8 [] c = "9" -> 9 [] OTHER -> 99

RECURSIVE DigitsVal(_, _, _)
DigitsVal(lit, base, acc) ==
    IF lit = <<>> THEN acc
    ELSE DigitsVal(Tail(lit), base, acc * base + DigitVal(Head(lit)))

ParseInt(lit) ==
    LET base == IF Len(lit) > 1 /\ lit[1] = "0" THEN 8 ELSE 10
        digs == IF base = 8 THEN Tail(lit) ELSE lit
    IN  IF lit = <<>> \/ \E i \in 1..Len(digs) : DigitVal(digs[i]) >= base
        THEN [ok |-> FALSE, val |-> 0]
        ELSE [ok |-> TRUE, val |-> DigitsVal(digs, base, 0)]

parseIdentifier(toks, p) ==
    [node |-> Identifier(CurrT(toks, p).Literal), p |-> p]

parseIntegerLiteral(toks, p) ==
    LET r == ParseInt(CurrT(toks, p).Literal)
    IN  IF ~r.ok
        THEN [node |-> NIL,
              p |-> [p EXCEPT !.errors = Append(@, "could not parse literal as integer")]]
        ELSE [node |-> IntegerLiteral(r.val), p |-> p]

parseBoolean(toks, p) ==
    [node |-> BooleanLit(currTIs(toks, p, "TRUE")), p |-> p]

parseStringLiteral(toks, p) ==
    [node |-> StringLiteral(CurrT(toks, p).Literal), p |-> p]

\* the loops "for !p.currTIs(token.SEMICOLON) { p.nextToken() }" of
\* parseLetStatement and parseReturnStatement: the position of the first ";"
\* from currT on; with none the loop runs for ever on EOF.
scanSemicolon(toks, p) ==
    LET semis == {i \in p.pos..Len(toks) : toks[i].Type = ";"}
    IN  IF semis = {}
        THEN [p EXCEPT !.pos = Len(toks) + 1, !.div = TRUE,
                       !.derr = IF p.div THEN p.derr ELSE p.errors]
        ELSE [p EXCEPT !.pos = CHOOSE i \in semis : \A j \in semis : i <= j]

\* F applied to v, v computed once
With(v, F(_)) == F(v)

RECURSIVE parseExpression(_, _, _)
RECURSIVE infixLoop(_, _, _)
RECURSIVE parsePrefixExpression(_, _)
RECURSIVE parseInfixExpression(_, _, _)
RECURSIVE parseGroupedExpression(_, _)
RECURSIVE parseIfExpression(_, _)
RECURSIVE parseBlockStatement(_, _)
RECURSIVE blockLoop(_, _, _)
RECURSIVE parseFunctionLiteral(_, _)
RECURSIVE parseCallExpression(_, _, _)
RECURSIVE parseArrayLiteral(_, _)
RECURSIVE parseHashLiteral(_, _)
RECURSIVE hashLoop(_, _, _)
RECURSIVE parseExpressionList(_, _, _)
RECURSIVE listLoop(_, _, _)
RECURSIVE parseIndexExpression(_, _, _)
RECURSIVE parseStatment(_, _)
RECURSIVE parseLetStatement(_, _)
RECURSIVE parseReturnStatement(_, _)
RECURSIVE parseExpressionStatment(_, _)

prefixFn(toks, p) ==
    LET t == CurrT(toks, p).Type
    IN  CASE t = "IDENTIFER" -> parseIdentifier(toks, p)
          [] t = "INT" -> parseIntegerLiteral(toks, p)
          [] t \in {"!", "-"} -> parsePrefixExpression(toks, p)
          [] t \in {"TRUE", "FALSE"} -> parseBoolean(toks, p)
          [] t = "(" -> parseGroupedExpression(toks, p)
          [] t = "IF" -> parseIfExpression(toks, p)
          [] t = "FUNCTION" -> parseFunctionLiteral(toks, p)
          [] t = "STRING" -> parseStringLiteral(toks, p)
          [] t = "[" -> parseArrayLiteral(toks, p)
          [] t = "{" -> parseHashLiteral(toks, p)

infixFn(toks, p, left) ==
    LET t == CurrT(toks, p).Type
    IN  CASE t = "(" -> parseCallExpression(toks, p, left)
          [] t = "[" -> parseIndexExpression(toks, p, left)
          [] OTHER -> parseInfixExpression(toks, p, left)

parseExpression(toks, p, precedence) ==
    IF CurrT(toks, p).Type \notin prefixParseFns
    THEN [node |-> NIL, p |-> noPrefixParseFnError(p, CurrT(toks, p).Type)]
    ELSE infixLoop(toks, prefixFn(toks, p), precedence)

\* the for loop of parseExpression; r is [node |-> leftExp, p]
infixLoop(toks, r, precedence) ==
    IF ~peekTokenIs(toks, r.p, ";") /\ precedence < peekPrecendence(toks, r.p)
    THEN IF PeekT(toks, r.p).Type \notin infixParseFns
         THEN r
         ELSE infixLoop(toks, infixFn(toks, nextToken(toks, r.p), r.node), precedence)
    ELSE r

parsePrefixExpression(toks, p) ==
    LET op == Join(CurrT(toks, p).Literal)
    IN  With(parseExpression(toks, nextToken(toks, p), PREFIX),
             LAMBDA r : [node |-> PrefixExpression(op, r.node), p |-> r.p])

parseInfixExpression(toks, p, left) ==
    LET op == Join(CurrT(toks, p).Literal)
        prec == currPrecendence(toks, p)
    IN  With(parseExpression(toks, nextToken(toks, p), prec),
             LAMBDA r : [node |-> InfixExpression(op, left, r.node), p |-> r.p])

parseGroupedExpression(toks, p) ==
    With(parseExpression(toks, nextToken(toks, p), LOWEST),
         LAMBDA r :
            LET e == expectPeek(toks, r.p, ")")
            IN  IF ~e.ok THEN [node |-> NIL, p |-> e.p]
                ELSE [node |-> r.node, p |-> e.p])

\* parseIfExpression from the "else" on; c and cons are the condition and
\* the consequence parsed
ifAlternative(toks, c, cons) ==
    IF peekTokenIs(toks, cons.p, "ELSE")
    THEN LET e4 == expectPeek(toks, nextToken(toks, cons.p), "{")
         IN  IF ~e4.ok THEN [node |-> NIL, p |-> e4.p]
             ELSE With(parseBlockStatement(toks, e4.p),
                       LAMBDA alt : [node |-> IfExpression(c.node, cons.node, alt.node),
                                     p |-> alt.p])
    ELSE [node |-> IfExpression(c.node, cons.node, NIL), p |-> cons.p]

\* parseIfExpression from the ")" on; c is the condition parsed
ifConsequence(toks, c) ==
    LET e2 == expectPeek(toks, c.p, ")")
    IN  IF ~e2.ok THEN [node |-> NIL, p |-> e2.p] ELSE
        LET e3 == expectPeek(toks, e2.p, "{")
        IN  IF ~e3.ok THEN [node |-> NIL, p |-> e3.p]
            ELSE With(parseBlockStatement(toks, e3.p),
                      LAMBDA cons : ifAlternative(toks, c, cons))

parseIfExpression(toks, p) ==
    LET e1 == expectPeek(toks, p, "(")
    IN  IF ~e1.ok THEN [node |-> NIL, p |-> e1.p]
        ELSE With(parseExpression(toks, nextToken(toks, e1.p), LOWEST),
                  LAMBDA c : ifConsequence(toks, c))

parseBlockStatement(toks, p) ==
    With(blockLoop(toks, nextToken(toks, p), <<>>),
         LAMBDA r : [node |-> BlockStatement(r.list), p |-> r.p])

\* the for loop of parseBlockStatement
blockLoop(toks, p, stmts) ==
    IF ~currTIs(toks, p, "}") /\ ~currTIs(toks, p, "EOF")
    THEN With(parseStatment(toks, p),
              LAMBDA s :
                 blockLoop(toks, nextToken(toks, s.p),
                           IF s.node.kind # "nil" THEN Append(stmts, s.node) ELSE stmts))
    ELSE [list |-> stmts, p |-> p]

\* the for loop of parseFunctionParams
RECURSIVE paramsLoop(_, _, _)
paramsLoop(toks, p, idents) ==
    IF peekTokenIs(toks, p, ",")
    THEN LET p2 == nextToken(toks, nextToken(toks, p))
         IN  paramsLoop(toks, p2, Append(idents, Identifier(CurrT(toks, p2).Literal)))
    ELSE [list |-> idents, p |-> p]

parseFunctionParams(toks, p) ==
    IF peekTokenIs(toks, p, ")")
    THEN [list |-> <<>>, p |-> nextToken(toks, p)]
    ELSE LET p1 == nextToken(toks, p)
         IN  With(paramsLoop(toks, p1, <<Identifier(CurrT(toks, p1).Literal)>>),
                  LAMBDA r :
                     LET e == expectPeek(toks, r.p, ")")
                     IN  IF ~e.ok THEN [list |-> <<>>, p |-> e.p]
                         ELSE [list |-> r.list, p |-> e.p])

\* parseFunctionLiteral from the "{" on; ps is parseFunctionParams's result
functionBody(toks, ps) ==
    LET e2 == expectPeek(toks, ps.p, "{")
    IN  IF ~e2.ok THEN [node |-> NIL, p |-> e2.p]
        ELSE With(parseBlockStatement(toks, e2.p),
                  LAMBDA b : [node |-> FunctionLiteral(ps.list, b.node), p |-> b.p])

parseFunctionLiteral(toks, p) ==
    LET e1 == expectPeek(toks, p, "(")
    IN  IF ~e1.ok THEN [node |-> NIL, p |-> e1.p]
        ELSE With(parseFunctionParams(toks, e1.p), LAMBDA ps : functionBody(toks, ps))

parseCallExpression(toks, p, function) ==
    With(parseExpressionList(toks, p, ")"),
         LAMBDA r : [node |-> CallExpression(function, r.list), p |-> r.p])

parseArrayLiteral(toks, p) ==
    With(parseExpressionList(toks, p, "]"),
         LAMBDA r : [node |-> ArrayLiteral(r.list), p |-> r.p])

\* hash.Pairs[key] = value: a nil key node is one map key, any other key
\* node is a fresh pointer
putPair(pairs, key, value) ==
    IF key.kind = "nil" /\ \E i \in 1..Len(pairs) : pairs[i].key.kind = "nil"
    THEN [i \in 1..Len(pairs) |->
            IF pairs[i].key.kind = "nil" THEN [key |-> key, value |-> value] ELSE pairs[i]]
    ELSE Append(pairs, [key |-> key, value |-> value])

parseHashLiteral(toks, p) ==
    With(hashLoop(toks, p, <<>>),
         LAMBDA r :
            IF ~r.ok THEN [node |-> NIL, p |-> r.p] ELSE
            LET e == expectPeek(toks, r.p, "}")
            IN  IF ~e.ok THEN [node |-> NIL, p |-> e.p]
                ELSE [node |-> HashLiteral(r.list), p |-> e.p])

\* one turn of the loop of parseHashLiteral from the value's end on; ps is
\* the pairs with the new one, p the parser after the value
hashNext(toks, p, ps) ==
    IF peekTokenIs(toks, p, "}")
    THEN hashLoop(toks, p, ps)
    ELSE LET e2 == expectPeek(toks, p, ",")
         IN  IF ~e2.ok THEN [ok |-> FALSE, list |-> ps, p |-> e2.p]
             ELSE hashLoop(toks, e2.p, ps)

\* one turn of the loop of parseHashLiteral from the ":" on; k is the key parsed
hashValue(toks, k, pairs) ==
    LET e1 == expectPeek(toks, k.p, ":")
    IN  IF ~e1.ok THEN [ok |-> FALSE, list |-> pairs, p |-> e1.p]
        ELSE With(parseExpression(toks, nextToken(toks, e1.p), LOWEST),
                  LAMBDA v : hashNext(toks, v.p, putPair(pairs, k.node, v.node)))

\* the for loop of parseHashLiteral: [ok, list, p]
hashLoop(toks, p, pairs) ==
    IF peekTokenIs(toks, p, "}") THEN [ok |-> TRUE, list |-> pairs, p |-> p]
    ELSE With(parseExpression(toks, nextToken(toks, p), LOWEST),
              LAMBDA k : hashValue(toks, k, pairs))

\* parseExpressionList from the end of the list on; r is listLoop's result
listEnd(toks, r, end) ==
    LET e == expectPeek(toks, r.p, end)
    IN  IF ~e.ok THEN [list |-> <<>>, p |-> e.p]
        ELSE [list |-> r.list, p |-> e.p]

\* a nil slice and an empty one are both <<>>
parseExpressionList(toks, p, end) ==
    IF peekTokenIs(toks, p, end)
    THEN [list |-> <<>>, p |-> nextToken(toks, p)]
    ELSE With(parseExpression(toks, nextToken(toks, p), LOWEST),
              LAMBDA first :
                 With(listLoop(toks, first.p, <<first.node>>),
                      LAMBDA r : listEnd(toks, r, end)))

\* the for loop of parseExpressionList
listLoop(toks, p, list) ==
    IF peekTokenIs(toks, p, ",")
    THEN With(parseExpression(toks, nextToken(toks, nextToken(toks, p)), LOWEST),
              LAMBDA x : listLoop(toks, x.p, Append(list, x.node)))
    ELSE [list |-> list, p |-> p]

parseIndexExpression(toks, p, left) ==
    With(parseExpression(toks, nextToken(toks, p), LOWEST),
         LAMBDA i :
            LET e == expectPeek(toks, i.p, "]")
            IN  IF ~e.ok THEN [node |-> NIL, p |-> e.p]
                ELSE [node |-> IndexExpression(left, i.node), p |-> e.p])

\* parseLetStatement up to and including stmt.Value: [ok, node, p]
letHead(toks, p) ==
    LET e1 == expectPeek(toks, p, "IDENTIFER")
    IN  IF ~e1.ok THEN [ok |-> FALSE, node |-> NilLet, p |-> e1.p] ELSE
        LET name == Identifier(CurrT(toks, e1.p).Literal)
            e2 == expectPeek(toks, e1.p, "=")
        IN  IF ~e2.ok THEN [ok |-> FALSE, node |-> NilLet, p |-> e2.p]
            ELSE With(parseExpression(toks, nextToken(toks, e2.p), LOWEST),
                      LAMBDA v : [ok |-> TRUE, node |-> LetStatement(name, v.node),
                                  p |-> v.p])

\* parseReturnStatement up to and including stmt.ReturnValue
returnHead(toks, p) ==
    With(parseExpression(toks, nextToken(toks, p), LOWEST),
         LAMBDA v : [ok |-> TRUE, node |-> ReturnStatement(v.node), p |-> v.p])

parseLetStatement(toks, p) ==
    With(letHead(toks, p),
         LAMBDA h : IF ~h.ok THEN [node |-> h.node, p |-> h.p]
                    ELSE [node |-> h.node, p |-> scanSemicolon(toks, h.p)])

parseReturnStatement(toks, p) ==
    With(returnHead(toks, p),
         LAMBDA h : [node |-> h.node, p |-> scanSemicolon(toks, h.p)])

parseExpressionStatment(toks, p) ==
    With(parseExpression(toks, p, LOWEST),
         LAMBDA e : [node |-> ExpressionStatement(e.node),
                     p |-> IF peekTokenIs(toks, e.p, ";")
                           THEN nextToken(toks, e.p) ELSE e.p])

parseStatment(toks, p) ==
    CASE CurrT(toks, p).Type = "LET" -> parseLetStatement(toks, p)
      [] CurrT(toks, p).Type = "RETURN" -> parseReturnStatement(toks, p)
      [] OTHER -> parseExpressionStatment(toks, p)

(***************************************************************************)
(* The source text of a line, written as its lexemes.  Chars gives the     *)
(* characters of a lexeme; a lexeme in quotes is a string literal.         *)
(***************************************************************************)
Chars(w) ==
    CASE w = "let" -> <<"l", "e", "t">>
      [] w = "fn" -> <<"f", "n">>
      [] w = "true" -> <<"t", "r", "u", "e">>
      [] w = "false" -> <<"f", "a", "l", "s", "e">>
      [] w = "if" -> <<"i", "f">>
      [] w = "else" -> <<"e", "l", "s", "e">>
      [] w = "return" -> <<"r", "e", "t", "u", "r", "n">>
      [] w = "==" -> <<"=", "=">>
      [] w = "!=" -> <<"!", "=">>
      [] w = "puts" -> <<"p", "u", "t", "s">>
      [] w = "len" -> <<"l", "e", "n">>
      [] w = "first" -> <<"f", "i", "r", "s", "t">>
      [] w = "last" -> <<"l", "a", "s", "t">>
      [] w = "rest" -> <<"r", "e", "s", "t">>
      [] w = "push" -> <<"p", "u", "s", "h">>
      [] w = "10" -> <<"1", "0">>
      [] w = "010" -> <<"0", "1", "0">>
      [] w = "08" -> <<"0", "8">>
      [] w = "'a'" -> <<"a">>
      [] w = "'b'" -> <<"b">>
      [] w = "'ab'" -> <<"a", "b">>
      [] w = "''" -> <<>>
      [] OTHER -> <<w>>

Digits == {"0", "1", "2", "3", "4", "5", "6", "7", "8", "9"}
StringLexemes == {"'a'", "'b'", "'ab'", "''"}
Symbols ==
    {"+", "=", "-", "!", "*", "/", "<", ">", "==", "!=", ",", ";", ":",
     "(", ")", "[", "]", "{", "}"}

keywords ==
    [w \in {"fn", "let", "true", "false", "if", "else", "return"} |->
        CASE w = "fn" -> "FUNCTION"
          [] w = "let" -> "LET"
          [] w = "true" -> "TRUE"
          [] w = "false" -> "FALSE"
          [] w = "if" -> "IF"
          [] w = "else" -> "ELSE"
          [] w = "return" -> "RETURN"]

LookupIdentifier(ident) ==
    IF ident \in DOMAIN keywords THEN keywords[ident] ELSE "IDENTIFER"

\* the token the lexer makes of one lexeme
LexWord(w) ==
    CASE w \in Symbols -> tk(w, Chars(w))
      [] w \in StringLexemes -> tk("STRING", Chars(w))
      [] Chars(w)[1] \in Digits -> tk("INT", Chars(w))
      [] OTHER -> tk(LookupIdentifier(w), Chars(w))

Lex(ws) == [i \in 1..Len(ws) |-> LexWord(ws[i])]

(***************************************************************************)
(* package object: the runtime values.  An object made by &object.T{...}   *)
(* carries id, its identity; TRUE, FALSE and NULL are single objects and   *)
(* an Integer's identity is never compared (integers meet in               *)
(* evalIntegerInfixExpression, and objects of two types are never the      *)
(* same object).                                                           *)
(***************************************************************************)
GoNil == [type |-> "nil"]
TrueObj == [type |-> "BOOLEAN", Value |-> TRUE]
FalseObj == [type |-> "BOOLEAN", Value |-> FALSE]
NULL == [type |-> "NULL"]
Integer(n) == [type |-> "INTEGER", Value |-> n]
BuiltIn(name) == [type |-> "BUILTIN", Fn |-> name]

\* a Go run-time panic unwinding the calls of Eval
Panic(msg) == [type |-> "PANIC", Message |-> msg]
isPanic(obj) == obj.type = "PANIC"
isNil(obj) == obj.type = "nil"

NilDeref == Panic("invalid memory address or nil pointer dereference")

\* interface equality left == right: the same object
SameObject(a, b) ==
    /\ a.type = b.type
    /\ CASE a.type \in {"nil", "NULL"} -> TRUE
         [] a.type = "BOOLEAN" -> a.Value = b.Value
         [] a.type = "BUILTIN" -> a.Fn = b.Fn
         [] a.type = "INTEGER" -> FALSE
         [] OTHER -> a.id = b.id

\* Hashable.HashKey: the type and a number that equal values share
CharCode(c) ==
    CASE c = "a" -> 1 [] c = "b" -> 2 [] c = "c" -> 3 [] OTHER -> 4

RECURSIVE StrCode(_)
StrCode(cs) == IF cs = <<>> THEN 0 ELSE CharCode(Head(cs)) + 5 * StrCode(Tail(cs))

Hashable(obj) == obj.type \in {"INTEGER", "BOOLEAN", "STRING"}

HashKey(obj) ==
    [Type |-> obj.type,
     Value |-> CASE obj.type = "INTEGER" -> obj.Value
                 [] obj.type = "BOOLEAN" -> IF obj.Value THEN 1 ELSE 0
                 [] obj.type = "STRING" -> StrCode(obj.Value)]

(***************************************************************************)
(* package object: Env.  The environments live in h, a sequence of         *)
(* [store, outer]; an *Env is an index of h and 0 is the nil *Env.         *)
(***************************************************************************)
EmptyStore == [n \in {} |-> GoNil]

NewEnvironment(h) == Append(h, [store |-> EmptyStore, outer |-> 0])

NewClosedEnvNoOuter(h, outer) == NewEnvironment(h)

NewClosedEnv(h, outer) ==
    LET h1 == NewEnvironment(h)
    IN  [h1 EXCEPT ![Len(h1)].outer = outer]

GetNoOuter(h, e, name) ==
    IF name \in DOMAIN h[e].store
    THEN [obj |-> h[e].store[name], ok |-> TRUE]
    ELSE [obj |-> GoNil, ok |-> FALSE]

RECURSIVE Get(_, _, _)
Get(h, e, name) ==
    IF name \notin DOMAIN h[e].store /\ h[e].outer # 0
    THEN Get(h, h[e].outer, name)
    ELSE IF name \in DOMAIN h[e].store
         THEN [obj |-> h[e].store[name], ok |-> TRUE]
         ELSE [obj |-> GoNil, ok |-> FALSE]

Set(h, e, name, val) ==
    [h EXCEPT ![e].store =
        [n \in (DOMAIN @) \cup {name} |-> IF n = name THEN val ELSE @[n]]]

(***************************************************************************)
(* package evaluator.  The state st threaded through an evaluation is      *)
(* [heap, nid, trace, seed]: the environments, the number of objects       *)
(* made, the events so far, and what decides the order of the coming       *)
(* iterations over Go maps.  A function of the evaluator yields [v, st].   *)
(***************************************************************************)
log(st, ev) == [st EXCEPT !.trace = Append(@, ev)]

newObject(st, rec) ==
    [v |-> [id |-> st.nid + 1] @@ rec, st |-> [st EXCEPT !.nid = @ + 1]]

newError(st, msg) == newObject(st, [type |-> "ERROR", Message |-> msg])

isErrorNever(obj) == FALSE

isError(obj) == IF ~isNil(obj) THEN obj.type = "ERROR" ELSE FALSE

nativeBoolToBooleanObject(b) == IF b THEN TrueObj ELSE FalseObj

isTruthy(obj) ==
    CASE SameObject(obj, NULL) -> FALSE
      [] SameObject(obj, TrueObj) -> TRUE
      [] SameObject(obj, FalseObj) -> FALSE
      [] OTHER -> TRUE

evalBangOperatorExpression(right) ==
    CASE SameObject(right, TrueObj) -> FalseObj
      [] SameObject(right, FalseObj) -> TrueObj
      [] SameObject(right, NULL) -> TrueObj
      [] OTHER -> FalseObj

evalMinusPrefixOperatorExpression(right, st) ==
    IF isNil(right) THEN [v |-> NilDeref, st |-> st]
    ELSE IF right.type # "INTEGER"
    THEN newError(st, "unknown operator: -" \o right.type)
    ELSE [v |-> Integer(right.Value * (-1)), st |-> st]

evalPrefixExpression(op, right, st) ==
    CASE op = "!" -> [v |-> evalBangOperatorExpression(right), st |-> st]
      [] op = "-" -> evalMinusPrefixOperatorExpression(right, st)
      [] OTHER -> IF isNil(right) THEN [v |-> NilDeref, st |-> st]
                  ELSE newError(st, "unknown operator: " \o op \o right.type)

\* Go's integer division truncates toward zero
GoDiv(a, b) ==
    LET abs(x) == IF x < 0 THEN -x ELSE x
        q == abs(a) \div abs(b)
    IN  IF (a < 0) # (b < 0) THEN -q ELSE q

evalIntegerInfixExpression(op, left, right, st) ==
    LET leftVal == left.Value
        rightVal == right.Value
        ret(x) == [v |-> x, st |-> st]
    IN  CASE op = "+" -> ret(Integer(leftVal + rightVal))
          [] op = "-" -> ret(Integer(leftVal - rightVal))
          [] op = "*" -> ret(Integer(leftVal * rightVal))
          [] op = "/" -> IF rightVal = 0
                         THEN ret(Panic("runtime error: integer divide by zero"))
                         ELSE ret(Integer(GoDiv(leftVal, rightVal)))
          [] op = "<" -> ret(nativeBoolToBooleanObject(leftVal < rightVal))
          [] op = ">" -> ret(nativeBoolToBooleanObject(leftVal > rightVal))
          [] op = "!=" -> ret(nativeBoolToBooleanObject(leftVal # rightVal))
          [] op = "==" -> ret(nativeBoolToBooleanObject(leftVal = rightVal))
          [] OTHER -> newError(st, "unknown operator: " \o left.type \o " " \o op
                                   \o " " \o right.type)

evalStringInfixExpression(op, left, right, st) ==
    IF op # "+"
    THEN newError(st, "unknown operator: " \o left.type \o " " \o op \o " " \o right.type)
    ELSE newObject(st, [type |-> "STRING", Value |-> left.Value \o right.Value])

\* the switch of evalInfixExpression without the case that reports a type mismatch
evalInfixExpressionNoMismatch(op, left, right, st) ==
    IF isNil(left) \/ isNil(right) THEN [v |-> NilDeref, st |-> st]
    ELSE IF left.type = "INTEGER" /\ right.type = "INTEGER"
    THEN evalIntegerInfixExpression(op, left, right, st)
    ELSE IF op = "==" THEN [v |-> nativeBoolToBooleanObject(SameObject(left, right)), st |-> st]
    ELSE IF op = "!=" THEN [v |-> nativeBoolToBooleanObject(~SameObject(left, right)), st |-> st]
    ELSE IF left.type = "STRING" /\ right.type = "STRING"
    THEN evalStringInfixExpression(op, left, right, st)
    ELSE newError(st, "unknown operator: " \o left.type \o " " \o op \o " " \o right.type)

\* x.Type() on a nil Object panics; && and the cases of the switch are
\* evaluated in order, so right.Type() is reached only as far as Go reaches it.
evalInfixExpression(op, left, right, st) ==
    IF isNil(left) THEN [v |-> NilDeref, st |-> st]
    ELSE IF left.type = "INTEGER" /\ isNil(right) THEN [v |-> NilDeref, st |-> st]
    ELSE IF left.type = "INTEGER" /\ right.type = "INTEGER"
    THEN evalIntegerInfixExpression(op, left, right, st)
    ELSE IF op = "==" THEN [v |-> nativeBoolToBooleanObject(SameObject(left, right)), st |-> st]
    ELSE IF op = "!=" THEN [v |-> nativeBoolToBooleanObject(~SameObject(left, right)), st |-> st]
    ELSE IF isNil(right) THEN [v |-> NilDeref, st |-> st]
    ELSE IF left.type = "STRING" /\ right.type = "STRING"
    THEN evalStringInfixExpression(op, left, right, st)
    ELSE IF left.type # right.type
    THEN newError(st, "type mismatch: " \o left.type \o " " \o op \o " " \o right.type)
    ELSE newError(st, "unknown operator: " \o left.type \o " " \o op \o " " \o right.type)

(***************************************************************************)
(* builtins.go.  puts prints through fmt.Println; each line printed is an  *)
(* event of the trace.  The backquotes of the messages are written as      *)
(* quotes.                                                                 *)
(***************************************************************************)
builtins == {"len", "first", "last", "rest", "push", "puts"}

wrongArgs(st, got, want) ==
    newError(st, "wrong number of arguments. got=" \o ToString(got) \o ", want=" \o want)

lenFunc(args, st) ==
    IF Len(args) # 1 THEN wrongArgs(st, Len(args), "1")
    ELSE LET arg == args[1]
         IN  CASE arg.type = "STRING" -> [v |-> Integer(Len(arg.Value)), st |-> st]
               [] arg.type = "ARRAY" -> [v |-> Integer(Len(arg.Elements)), st |-> st]
               [] isNil(arg) -> [v |-> NilDeref, st |-> st]
               [] OTHER -> newError(st, "argument to 'len' not supported, got " \o arg.type)

firstFunc(args, st) ==
    IF Len(args) # 1 THEN wrongArgs(st, Len(args), "1")
    ELSE IF isNil(args[1]) THEN [v |-> NilDeref, st |-> st]
    ELSE IF args[1].type # "ARRAY"
    THEN newError(st, "argument to 'first' must be ARRAY, got " \o args[1].type)
    ELSE IF Len(args[1].Elements) > 0
    THEN [v |-> args[1].Elements[1], st |-> st]
    ELSE [v |-> NULL, st |-> st]

lastFunc(args, st) ==
    IF Len(args) # 1 THEN wrongArgs(st, Len(args), "1")
    ELSE IF isNil(args[1]) THEN [v |-> NilDeref, st |-> st]
    ELSE IF args[1].type # "ARRAY"
    THEN newError(st, "argument to 'last' must be ARRAY, got " \o args[1].type)
    ELSE IF Len(args[1].Elements) > 0
    THEN [v |-> args[1].Elements[Len(args[1].Elements)], st |-> st]
    ELSE [v |-> NULL, st |-> st]

restFunc(args, st) ==
    IF Len(args) # 1 THEN wrongArgs(st, Len(args), "1")
    ELSE IF isNil(args[1]) THEN [v |-> NilDeref, st |-> st]
    ELSE IF args[1].type # "ARRAY"
    THEN newError(st, "argument to 'rest' must be ARRAY, got " \o args[1].type)
    ELSE IF Len(args[1].Elements) > 0
    THEN newObject(st, [type |-> "ARRAY", Elements |-> Tail(args[1].Elements)])
    ELSE [v |-> NULL, st |-> st]

pushFunc(args, st) ==
    IF Len(args) # 2 THEN wrongArgs(st, Len(args), "2")
    ELSE IF isNil(args[1]) THEN [v |-> NilDeref, st |-> st]
    ELSE IF args[1].type # "ARRAY"
    THEN newError(st, "argument to 'push' must be ARRAY, got " \o args[1].type)
    ELSE newObject(st, [type |-> "ARRAY", Elements |-> Append(args[1].Elements, args[2])])

RECURSIVE putsFunc(_, _)
putsFunc(args, st) ==
    IF args = <<>> THEN [v |-> NULL, st |-> st]
    ELSE IF isNil(Head(args)) THEN [v |-> NilDeref, st |-> st]
    ELSE putsFunc(Tail(args), log(st, [k |-> "puts", v |-> Head(args)]))

callBuiltin(name, args, st) ==
    CASE name = "len" -> lenFunc(args, st)
      [] name = "first" -> firstFunc(args, st)
      [] name = "last" -> lastFunc(args, st)
      [] name = "rest" -> restFunc(args, st)
      [] name = "push" -> pushFunc(args, st)
      [] name = "puts" -> putsFunc(args, st)

(***************************************************************************)
(* evaluator.go                                                            *)
(***************************************************************************)
\* the host's stack: Eval nested deeper than this aborts the process
MaxDepth == 24

\* an order of iteration over a Go map of n entries, decided by seed k
RECURSIVE permOf(_, _)
permOf(idx, k) ==
    IF idx = <<>> THEN <<>>
    ELSE LET n == Len(idx)
             i == (k % n) + 1
             others == [j \in 1..(n - 1) |-> IF j < i THEN idx[j] ELSE idx[j + 1]]
         IN  <<idx[i]>> \o permOf(others, k \div n)

RECURSIVE Fact(_)
Fact(n) == IF n <= 1 THEN 1 ELSE n * Fact(n - 1)

mapOrder(n, seed) == permOf([j \in 1..n |-> j], seed % Fact(n))

unwrapReturnValue(obj) ==
    IF obj.type = "RETURN_VALUE" THEN obj.Value ELSE obj

evalIdentifier(node, env, st) ==
    LET g == Get(st.heap, env, node.Value)
    IN  IF g.ok THEN [v |-> g.obj, st |-> st]
        ELSE IF Join(node.Value) \in builtins
        THEN [v |-> BuiltIn(Join(node.Value)), st |-> st]
        ELSE newError(st, "identifier not found: " \o Join(node.Value))

evalArrayIndexExpression(array, index, st) ==
    LET idx == index.Value
        max == Len(array.Elements) - 1
    IN  IF idx < 0 \/ idx > max THEN [v |-> NULL, st |-> st]
        ELSE [v |-> array.Elements[idx + 1], st |-> st]

evalHashIndexExpression(hash, index, st) ==
    IF isNil(index) THEN [v |-> NilDeref, st |-> st]
    ELSE IF ~Hashable(index)
    THEN newError(st, "unusable as hash key: " \o index.type)
    ELSE IF HashKey(index) \notin DOMAIN hash.Pairs
    THEN [v |-> NULL, st |-> st]
    ELSE [v |-> hash.Pairs[HashKey(index)].Value, st |-> st]

evalIndexExpression(left, index, st) ==
    IF isNil(left) THEN [v |-> NilDeref, st |-> st]
    ELSE IF left.type = "ARRAY" /\ isNil(index) THEN [v |-> NilDeref, st |-> st]
    ELSE IF left.type = "ARRAY" /\ index.type = "INTEGER"
    THEN evalArrayIndexExpression(left, index, st)
    ELSE IF left.type = "HASH" THEN evalHashIndexExpression(left, index, st)
    ELSE IF isNil(index) THEN [v |-> NilDeref, st |-> st]
    ELSE newError(st, "index operator not supported: " \o left.type \o "["
                      \o index.type \o "]")

\* [env, h, panic]: args[idx] past the end of args is an index out of range
extendFunctionEnv(fn, args, h) ==
    LET h1 == NewClosedEnv(h, fn.Env)
        env == Len(h1)
        n == IF Len(args) < Len(fn.Params) THEN Len(args) ELSE Len(fn.Params)
        RECURSIVE bind(_, _)
        bind(hh, idx) ==
            IF idx > n THEN hh
            ELSE bind(Set(hh, env, fn.Params[idx].Value, args[idx]), idx + 1)
    IN  [env |-> env, h |-> bind(h1, 1), panic |-> Len(args) < Len(fn.Params)]

RECURSIVE Eval(_, _, _, _)
RECURSIVE evalNode(_, _, _, _)
RECURSIVE evalProgram(_, _, _, _, _)
RECURSIVE evalBlockStatement(_, _, _, _, _)
RECURSIVE evalIfExpression(_, _, _, _)
RECURSIVE evalExpressions(_, _, _, _, _)
RECURSIVE evalHashLiteral(_, _, _, _, _, _)
RECURSIVE applyFunction(_, _, _, _)

\* one call of Eval, at depth d of the calls of Eval in progress
Eval(node, env, st, d) ==
    IF d > MaxDepth THEN [v |-> Panic("stack overflow"), st |-> st]
    ELSE LET r == evalNode(node, env,
                           log(st, [k |-> "enter", d |-> d, node |-> node, env |-> env,
                                    heap |-> st.heap]), d)
         IN  [v |-> r.v, st |-> log(r.st, [k |-> "exit", d |-> d, v |-> r.v])]

\* the switch of Eval
evalNode(node, env, st, d) ==
    CASE node.kind = "Program" -> evalProgram(node.Statements, env, st, d, GoNil)
      [] node.kind = "ExpressionStatement" -> Eval(node.Expression, env, st, d + 1)
      [] node.kind = "BlockStatement" -> evalBlockStatement(node.Statements, env, st, d, GoNil)
      [] node.kind = "ReturnStatement" ->
            LET val == Eval(node.ReturnValue, env, st, d + 1)
            IN  IF isPanic(val.v) \/ isError(val.v) THEN val
                ELSE newObject(val.st, [type |-> "RETURN_VALUE", Value |-> val.v])
      [] node.kind = "LetStatement" ->
            LET val == Eval(node.Value, env, st, d + 1)
            IN  IF isPanic(val.v) \/ isError(val.v) THEN val
                ELSE [v |-> GoNil,
                      st |-> [val.st EXCEPT
                                !.heap = Set(@, env, node.Name.Value, val.v)]]
      [] node.kind = "IntegerLiteral" -> [v |-> Integer(node.Value), st |-> st]
      [] node.kind = "Boolean" -> [v |-> nativeBoolToBooleanObject(node.Value), st |-> st]
      [] node.kind = "StringLiteral" ->
            newObject(st, [type |-> "STRING", Value |-> node.Value])
      [] node.kind = "PrefixExpression" ->
            LET right == Eval(node.Right, env, st, d + 1)
            IN  IF isPanic(right.v) \/ isError(right.v) THEN right
                ELSE evalPrefixExpression(node.Operator, right.v, right.st)
      [] node.kind = "InfixExpression" ->
            LET left == Eval(node.Left, env, st, d + 1)
            IN  IF isPanic(left.v) \/ isError(left.v) THEN left ELSE
                LET right == Eval(node.Right, env, left.st, d + 1)
                IN  IF isPanic(right.v) \/ isError(right.v) THEN right
                    ELSE evalInfixExpression(node.Operator, left.v, right.v, right.st)
      [] node.kind = "IfExpression" -> evalIfExpression(node, env, st, d)
      [] node.kind = "Identifier" -> evalIdentifier(node, env, st)
      [] node.kind = "FunctionLiteral" ->
            newObject(st, [type |-> "FUNCTION", Params |-> node.Params,
                           Body |-> node.Body, Env |-> env])
      [] node.kind = "CallExpression" ->
            LET fn == Eval(node.Func, env, st, d + 1)
            IN  IF isPanic(fn.v) \/ isError(fn.v) THEN fn ELSE
                LET args == evalExpressions(node.Args, env, fn.st, d, <<>>)
                IN  IF isPanic(args.panic) THEN [v |-> args.panic, st |-> args.st]
                    ELSE IF Len(args.list) = 1 /\ isError(args.list[1])
                    THEN [v |-> args.list[1], st |-> args.st]
                    ELSE applyFunction(fn.v, args.list, args.st, d)
      [] node.kind = "ArrayLiteral" ->
            LET els == evalExpressions(node.Elements, env, st, d, <<>>)
            IN  IF isPanic(els.panic) THEN [v |-> els.panic, st |-> els.st]
                ELSE IF Len(els.list) = 1 /\ isError(els.list[1])
                THEN [v |-> els.list[1], st |-> els.st]
                ELSE newObject(els.st, [type |-> "ARRAY", Elements |-> els.list])
      [] node.kind = "IndexExpression" ->
            LET left == Eval(node.Left, env, st, d + 1)
            IN  IF isPanic(left.v) \/ isError(left.v) THEN left ELSE
                LET idx == Eval(node.Index, env, left.st, d + 1)
                IN  IF isPanic(idx.v) \/ isError(idx.v) THEN idx
                    ELSE evalIndexExpression(left.v, idx.v, idx.st)
      [] node.kind = "HashLiteral" ->
            evalHashLiteral(node.Pairs,
                            mapOrder(Len(node.Pairs), st.seed), env,
                            [st EXCEPT !.seed = @ \div Fact(Len(node.Pairs))], d,
                            [hk \in {} |-> GoNil])
      [] OTHER -> [v |-> GoNil, st |-> st]

\* the loop of evalProgram over the statements still to evaluate; res is the
\* value of the last one evaluated
evalProgram(stmts, env, st, d, res) ==
    IF stmts = <<>> THEN [v |-> res, st |-> st]
    ELSE LET r == Eval(Head(stmts), env, st, d + 1)
         IN  CASE isPanic(r.v) -> r
               [] r.v.type = "RETURN_VALUE" -> [v |-> r.v.Value, st |-> r.st]
               [] r.v.type = "ERROR" -> r
               [] OTHER -> evalProgram(Tail(stmts), env, r.st, d, r.v)

evalBlockStatement(stmts, env, st, d, result) ==
    IF stmts = <<>> THEN [v |-> result, st |-> st]
    ELSE LET r == Eval(Head(stmts), env, st, d + 1)
         IN  IF isPanic(r.v) THEN r
             ELSE IF ~isNil(r.v) /\ r.v.type \in {"RETURN_VALUE", "ERROR"} THEN r
             ELSE evalBlockStatement(Tail(stmts), env, r.st, d, r.v)

evalIfExpression(ie, env, st, d) ==
    LET condition == Eval(ie.Condition, env, st, d + 1)
    IN  IF isPanic(condition.v) \/ isError(condition.v) THEN condition
        ELSE IF isTruthy(condition.v) THEN Eval(ie.Consequence, env, condition.st, d + 1)
        ELSE IF ie.Alternative.kind # "nil"
        THEN Eval(ie.Alternative, env, condition.st, d + 1)
        ELSE [v |-> NULL, st |-> condition.st]

\* [list, st, panic]: panic is the panic that ended the loop, or nil
evalExpressions(exprs, env, st, d, res) ==
    IF exprs = <<>> THEN [list |-> res, st |-> st, panic |-> GoNil]
    ELSE LET evaluated == Eval(Head(exprs), env, st, d + 1)
         IN  IF isPanic(evaluated.v)
             THEN [list |-> <<>>, st |-> evaluated.st, panic |-> evaluated.v]
             ELSE IF isError(evaluated.v)
             THEN [list |-> <<evaluated.v>>, st |-> evaluated.st, panic |-> GoNil]
             ELSE evalExpressions(Tail(exprs), env, evaluated.st, d,
                                  Append(res, evaluated.v))

\* the loop of evalHashLiteral: order holds the pairs still to visit
evalHashLiteral(nodePairs, order, env, st, d, pairs) ==
    IF order = <<>>
    THEN newObject(st, [type |-> "HASH", Pairs |-> pairs])
    ELSE LET key == Eval(nodePairs[Head(order)].key, env, st, d + 1)
         IN  IF isPanic(key.v) \/ isError(key.v) THEN key
             ELSE IF isNil(key.v) THEN [v |-> NilDeref, st |-> key.st]
             ELSE IF ~Hashable(key.v)
             THEN newError(key.st, "unusable as hash key: " \o key.v.type)
             ELSE LET val == Eval(nodePairs[Head(order)].value, env, key.st, d + 1)
                  IN  IF isPanic(val.v) \/ isError(val.v) THEN val
                      ELSE evalHashLiteral(nodePairs, Tail(order), env, val.st, d,
                               [hk \in (DOMAIN pairs) \cup {HashKey(key.v)} |->
                                   IF hk = HashKey(key.v)
                                   THEN [Key |-> key.v, Value |-> val.v]
                                   ELSE pairs[hk]])

applyFunction(fn, args, st, d) ==
    CASE fn.type = "FUNCTION" ->
            LET x == extendFunctionEnv(fn, args, st.heap)
            IN  IF x.panic
                THEN [v |-> Panic("runtime error: index out of range"),
                      st |-> [st EXCEPT !.heap = x.h]]
                ELSE LET st1 == log([st EXCEPT !.heap = x.h],
                                    [k |-> "apply", d |-> d, fn |-> fn, env |-> x.env,
                                     before |-> st.heap, h |-> x.h])
                         eval == Eval(fn.Body, x.env, st1, d + 1)
                     IN  [v |-> unwrapReturnValue(eval.v),
                          st |-> log(eval.st, [k |-> "applied", d |-> d, env |-> x.env,
                                               before |-> st.heap, after |-> eval.st.heap])]
      [] fn.type = "BUILTIN" -> callBuiltin(fn.Fn, args, st)
      [] isNil(fn) -> [v |-> NilDeref, st |-> st]
      [] OTHER -> newError(st, "not a function: " \o fn.type)

(***************************************************************************)
(* The lines fed to the interpreter.                                       *)
(***************************************************************************)
MaxLines == 2
MaxSeed == 1

BinOps == {"==", "!=", "<", ">", "+", "-", "*", "/"}

\* a op2 b op1 c
PrecSources ==
    {<<"1", op2, "2", op1, "3">> : op1 \in BinOps, op2 \in BinOps}
    \cup {<<"a", op2, "b", op1, "c", ";">> : op1 \in BinOps, op2 \in BinOps}

Operands == {<<"1">>, <<"true">>, <<"'a'">>, <<"[", "]">>, <<"puts", "(", ")">>}

\* left op right over values of every type
InfixSources == {l \o <<op>> \o r : l \in Operands, r \in Operands, op \in BinOps}

StatementSources ==
    { <<"let", "x", "=", "5">>,
      <<"let", "x", "=", "5", ";">>,
      <<"return", "5">>,
      <<"return", "5", ";">>,
      <<"let", "y", "=", "x", ";", "let", "x", "=", "010", ";", "y">>,
      <<"fn", "(", ")", "{", "return", "1", "}">>,
      <<"fn", "(", ")", "{", "return", "5", "}", ";", "7">>,
      <<"if", "(", "x", ")", "{", "return", "1", ";", "}", "else", "{", "let", "y", "=",
        "2", ";", "y", "}", ";", "7">>,
      <<"fn", "(", "a", ",", "b", ")", "{", "let", "c", "=", "a", "}", ";">>,
      <<"if", "(", "x", ")", "{", "let", "z", "=", "1", ";", "}", "else", "{", "2", "}">>,
      <<"let", "=", "5", ";">>,
      <<"let", "x", "5", ";">>,
      <<"(", "1", ";">>,
      <<"08">>,
      <<")">>,
      <<"{", "1", ":", "2", ",", "}">>,
      <<"[", "1", ",", "2", "]", "[", "1", "]">>,
      <<"!", "-", "10", ";", "x">>,
      <<>> }

ReturnSources ==
    { <<"if", "(", "10", ">", "1", ")", "{", "if", "(", "10", ">", "1", ")", "{",
        "return", "10", ";", "}", "return", "1", ";", "}">>,
      <<"let", "f", "=", "fn", "(", ")", "{", "if", "(", "true", ")", "{",
        "return", "5", ";", "}", "puts", "(", "9", ")", ";", "}", ";", "f", "(", ")">>,
      <<"fn", "(", "n", ")", "{", "if", "(", "n", ")", "{", "if", "(", "n", ")", "{",
        "return", "n", ";", "}", "}", "puts", "(", "0", ")", "}", "(", "1", ")", ";",
        "puts", "(", "2", ")">>,
      <<"fn", "(", ")", "{", "return", "fn", "(", ")", "{", "return", "1", ";", "}",
        "(", ")", "+", "1", ";", "}", "(", ")">>,
      <<"fn", "(", ")", "{", "1", "+", "if", "(", "true", ")", "{", "return", "5", ";",
        "}", "}", "(", ")">>,
      <<"fn", "(", ")", "{", "return", "if", "(", "true", ")", "{", "return", "5", ";",
        "}", ";", "}", "(", ")">>,
      <<"return", "if", "(", "true", ")", "{", "return", "5", ";", "}", ";">>,
      <<"let", "r", "=", "if", "(", "true", ")", "{", "return", "5", ";", "}", ";", "7">>,
      <<"return", "1", ";", "puts", "(", "2", ")">> }

ErrorSources ==
    { <<"foo", "+", "puts", "(", "1", ")">>,
      <<"puts", "(", "1", ")", "+", "foo">>,
      <<"[", "1", ",", "foo", ",", "puts", "(", "2", ")", "]">>,
      <<"{", "foo", ":", "puts", "(", "1", ")", "}">>,
      <<"{", "1", ":", "foo", ",", "2", ":", "puts", "(", "2", ")", "}">>,
      <<"{", "[", "]", ":", "puts", "(", "1", ")", "}">>,
      <<"-", "foo">>,
      <<"-", "true">>,
      <<"[", "1", "==", "true", ",", "1", "+", "true", "]">>,
      <<"if", "(", "foo", ")", "{", "puts", "(", "1", ")", "}">>,
      <<"if", "(", "1", ")", "{", "foo", ";", "puts", "(", "1", ")", "}">>,
      <<"foo", "(", "puts", "(", "1", ")", ")">>,
      <<"puts", "(", "foo", ",", "puts", "(", "1", ")", ")">>,
      <<"puts", "(", "puts", "(", "1", ")", ",", "foo", ")">>,
      <<"[", "1", "]", "[", "foo", "]">>,
      <<"foo", "[", "puts", "(", "1", ")", "]">>,
      <<"let", "a", "=", "foo", ";", "puts", "(", "1", ")">>,
      <<"return", "foo", ";">>,
      <<"fn", "(", "x", ")", "{", "x", "+", "true", ";", "puts", "(", "1", ")", "}",
        "(", "1", ")", "+", "puts", "(", "2", ")">>,
      <<"1", "(", "2", ")">>,
      <<"len", "(", "1", ")">>,
      <<"len", "(", "'ab'", ",", "1", ")">>,
      <<"first", "(", "1", ")">>,
      <<"push", "(", "[", "]", ")">> }

\* lines whose errors arise where a value is about to be kept
StoreSources ==
    { <<"let", "b", "=", "[", "1", ",", "2", "]", ";", "let", "a", "=", "[", "b", ",",
        "foo", "]", ";">>,
      <<"let", "h", "=", "{", "1", ":", "foo", "}", ";">>,
      <<"let", "h", "=", "{", "1", ":", "[", "2", "]", "}", ";", "{", "h", "[", "1", "]",
        ":", "1", "}">>,
      <<"fn", "(", "x", ",", "y", ")", "{", "x", "}", "(", "1", ",", "foo", ")">>,
      <<"fn", "(", "x", ")", "{", "x", "}", "(", "len", "(", "1", ")", ")">>,
      <<"fn", "(", ")", "{", "return", "foo", ";", "}", "(", ")">>,
      <<"let", "a", "=", "push", "(", "[", "1", "]", ",", "foo", ")", ";">>,
      <<"let", "e", "=", "first", "(", "[", "len", "(", "1", ")", "]", ")", ";">>,
      <<"let", "c", "=", "fn", "(", "x", ")", "{", "return", "[", "x", "]", ";", "}",
        "(", "{", "1", ":", "2", "}", ")", ";", "let", "e", "=", "c", "[", "foo", "]", ";">> }

PanicSources ==
    { <<"1", "/", "0">>,
      <<"7", "/", "2">>,
      <<"fn", "(", "x", ")", "{", "x", "}", "(", ")">>,
      <<"fn", "(", "x", ")", "{", "x", "}", "(", "1", ",", "2", ")">>,
      <<"-", "if", "(", "true", ")", "{", "let", "a", "=", "1", ";", "}">>,
      <<"fn", "(", ")", "{", "}", "(", ")", "+", "1">>,
      <<"puts", "(", "fn", "(", ")", "{", "}", "(", ")", ")">> }

ClosureSources ==
    { <<"let", "x", "=", "1", ";", "let", "f", "=", "fn", "(", ")", "{", "x", "}", ";",
        "let", "g", "=", "fn", "(", ")", "{", "let", "x", "=", "2", ";", "f", "(", ")",
        "}", ";", "g", "(", ")">>,
      <<"let", "f", "=", "fn", "(", ")", "{", "y", "}", ";", "let", "g", "=", "fn", "(",
        "y", ")", "{", "f", "(", ")", "}", ";", "g", "(", "3", ")">>,
      <<"let", "f", "=", "fn", "(", ")", "{", "z", "}", ";", "let", "z", "=", "5", ";",
        "f", "(", ")">>,
      <<"let", "f", "=", "fn", "(", "a", ")", "{", "let", "b", "=", "a", ";", "b", "}",
        ";", "f", "(", "1", ")", ";", "b">>,
      <<"let", "n", "=", "fn", "(", "x", ")", "{", "fn", "(", "y", ")", "{", "x", "+",
        "y", "}", "}", ";", "let", "t", "=", "n", "(", "2", ")", ";", "t", "(", "3",
        ")">>,
      <<"let", "f", "=", "fn", "(", ")", "{", "z", "+", "y", "}", ";", "let", "z", "=",
        "5", ";", "let", "g", "=", "fn", "(", "y", ")", "{", "f", "(", ")", "}", ";",
        "g", "(", "3", ")">>,
      <<"let", "f", "=", "fn", "(", "x", ")", "{", "x", "}", ";">>,
      <<"let", "h", "=", "fn", "(", ")", "{", "x", "}", ";">>,
      <<"let", "x", "=", "'a'", ";">>,
      <<"h", "(", ")">>,
      <<"f", "(", "x", ")">>,
      <<"x", "==", "x">>,
      <<"fn", "(", "x", ")", "{", "h", "(", ")", "}", "(", "3", ")">> }

HashSources ==
    { <<"{", "'a'", ":", "1", ",", "'a'", ":", "2", "}", "[", "'a'", "]">>,
      <<"{", "1", ":", "1", ",", "1", ":", "2", "}">>,
      <<"{", "true", ":", "1", ",", "2", ":", "3", "}", "[", "true", "]">>,
      <<"{", "1", ":", "puts", "(", "1", ")", ",", "2", ":", "puts", "(", "2", ")", "}">>,
      <<"{", "foo", ":", "1", ",", "bar", ":", "2", "}">>,
      <<"[", "puts", "(", "1", ")", ",", "puts", "(", "2", ")", "]">>,
      <<"puts", "(", "1", ")", "+", "puts", "(", "2", ")">>,
      <<"[", "1", ",", "2", "]", "[", "puts", "(", "1", ")", "]">>,
      <<"{", "'a'", ":", "1", "}", "[", "fn", "(", ")", "{", "}", "]">>,
      <<"rest", "(", "[", "1", ",", "2", "]", ")">>,
      <<"last", "(", "push", "(", "[", "]", ",", "'a'", "+", "'b'", ")", ")">> }

Sources ==
    PrecSources \cup InfixSources \cup StatementSources \cup ReturnSources
    \cup ErrorSources \cup PanicSources \cup ClosureSources \cup HashSources
    \cup StoreSources

\* the lines typed after the first: those that bind names at top level or
\* read them
LaterSources == StatementSources \cup ClosureSources \cup StoreSources

(***************************************************************************)
(* The interpreter at work: the driver reads a line, ParseProgram parses   *)
(* it statement by statement, and Eval evaluates the program in the        *)
(* top-level environment, environment 1.                                   *)
(***************************************************************************)
P == [pos |-> pos, errors |-> errors, div |-> FALSE, derr |-> <<>>]

Init ==
    /\ input \in {Lex(ws) : ws \in Sources}
    /\ pos = 1
    /\ errors = <<>>
    /\ program = <<>>
    /\ pending = NIL
    /\ ppc = "loop"
    /\ heap = NewEnvironment(<<>>)
    /\ nid = 0
    /\ output = GoNil
    /\ trace = <<>>
    /\ lines = 1

\* parseStatment up to the loop of a let or return statement that looks for
\* ";": [ok, node, p], ok when that loop is what comes next
statementHead(toks, p) ==
    CASE CurrT(toks, p).Type = "LET" -> letHead(toks, p)
      [] CurrT(toks, p).Type = "RETURN" -> returnHead(toks, p)
      [] OTHER -> [ok |-> FALSE] @@ parseExpressionStatment(toks, p)

ParseStatementTo(h) ==
    /\ pos' = h.p.pos
    /\ errors' = IF h.p.div THEN h.p.derr ELSE h.p.errors
    /\ pending' = h.node
    /\ ppc' = IF h.p.div \/ h.ok THEN "scan" ELSE "advance"

\* ParseProgram: p.parseStatment() up to the loop that looks for ";"
ParseStatement ==
    /\ ppc = "loop"
    /\ ~currTIs(input, P, "EOF")
    /\ ParseStatementTo(statementHead(input, P))
    /\ UNCHANGED <<input, program, evalVars>>

\* for !p.currTIs(token.SEMICOLON) { p.nextToken() }
ScanStep ==
    /\ ppc = "scan"
    /\ ~currTIs(input, P, ";")
    /\ pos' = nextToken(input, P).pos
    /\ UNCHANGED <<input, errors, program, pending, ppc, evalVars>>

ScanDone ==
    /\ ppc = "scan"
    /\ currTIs(input, P, ";")
    /\ ppc' = "advance"
    /\ UNCHANGED <<input, pos, errors, program, pending, evalVars>>

\* ParseProgram: append the statement when it is not nil, then p.nextToken()
Advance ==
    /\ ppc = "advance"
    /\ program' = IF pending.kind # "nil" THEN Append(program, pending) ELSE program
    /\ pos' = nextToken(input, P).pos
    /\ pending' = NIL
    /\ ppc' = "loop"
    /\ UNCHANGED <<input, errors, evalVars>>

ParseDone ==
    /\ ppc = "loop"
    /\ currTIs(input, P, "EOF")
    /\ ppc' = "done"
    /\ UNCHANGED <<input, pos, errors, program, pending, evalVars>>

\* Eval(program, env)
EvalProgram ==
    /\ ppc = "done"
    /\ errors = <<>>
    /\ \E seed \in 0..MaxSeed :
          LET r == Eval(Program(program), 1,
                        [heap |-> heap, nid |-> nid, trace |-> <<>>, seed |-> seed], 0)
          IN  /\ heap' = r.st.heap
              /\ nid' = r.st.nid
              /\ trace' = r.st.trace
              /\ output' = r.v
              /\ ppc' = IF isPanic(r.v) THEN "crashed" ELSE "evaluated"
    /\ UNCHANGED <<input, pos, errors, program, pending, lines>>

\* the driver prints the parser's errors and does not evaluate
SkipEval ==
    /\ ppc = "done"
    /\ errors # <<>>
    /\ ppc' = "evaluated"
    /\ UNCHANGED <<input, pos, errors, program, pending, evalVars>>

\* the driver reads the next line and makes a new Parser for it
NextLine ==
    /\ ppc = "evaluated"
    /\ lines < MaxLines
    /\ input' \in {Lex(ws) : ws \in LaterSources}
    /\ pos' = 1
    /\ errors' = <<>>
    /\ program' = <<>>
    /\ pending' = NIL
    /\ ppc' = "loop"
    /\ output' = GoNil
    /\ trace' = <<>>
    /\ lines' = lines + 1
    /\ UNCHANGED <<heap, nid>>

Next ==
    \/ ParseStatement
    \/ ScanStep
    \/ ScanDone
    \/ Advance
    \/ ParseDone
    \/ EvalProgram
    \/ SkipEval
    \/ NextLine

Spec == Init /\ [][Next]_vars

(***************************************************************************)
(* Reading the trace of the last evaluation.                               *)
(***************************************************************************)
\* the calls and returns of Eval and the lines printed, in order
Events == SelectSeq(trace, LAMBDA e : e.k \in {"enter", "exit", "puts"})

IsEnter(ev, j) == ev[j].k = "enter"
IsExit(ev, j) == ev[j].k = "exit"

\* the return of the call of Eval entered at j
ExitOf(ev, j) ==
    CHOOSE x \in (j + 1)..Len(ev) :
        /\ IsExit(ev, x) /\ ev[x].d = ev[j].d
        /\ \A y \in (j + 1)..(x - 1) : ~(IsExit(ev, y) /\ ev[y].d = ev[j].d)

\* the calls of Eval made directly by the call entered at j, in order
ChildrenOf(ev, j) ==
    LET x == ExitOf(ev, j)
        RECURSIVE collect(_)
        collect(k) ==
            IF k >= x THEN <<>>
            ELSE IF IsEnter(ev, k) /\ ev[k].d = ev[j].d + 1
            THEN <<k>> \o collect(k + 1)
            ELSE collect(k + 1)
    IN  collect(j + 1)

\* the call of Eval that made the call entered at k (k not the outermost)
ParentOf(ev, k) ==
    CHOOSE j \in 1..(k - 1) :
        /\ IsEnter(ev, j) /\ ev[j].d = ev[k].d - 1
        /\ \A y \in (j + 1)..(k - 1) : ~(IsEnter(ev, y) /\ ev[y].d = ev[k].d - 1)

Evaluated == ppc \in {"evaluated", "crashed"} /\ errors = <<>>

(***************************************************************************)
(* C3.  No exception escapes the evaluator: every evaluation of a program  *)
(* parsed without diagnostics ends by returning a value, never in a panic  *)
(* of the host.                                                            *)
(***************************************************************************)
C3_NoPanicEscapes == Evaluated => ~isPanic(output)

(***************************************************************************)
(* C2.  Error short-circuit: when a call of Eval made by another returns   *)
(* an Error, the very next thing to happen is that the caller returns that *)
(* same Error: no other sub-expression is evaluated and nothing is         *)
(* printed in between.                                                     *)
(***************************************************************************)
C2_ErrorShortCircuit ==
    LET ev == Events
    IN  \A i \in 1..Len(ev) :
            (IsExit(ev, i) /\ ev[i].d > 0 /\ ev[i].v.type = "ERROR")
            => /\ i < Len(ev)
               /\ IsExit(ev, i + 1)
               /\ ev[i + 1].d = ev[i].d - 1
               /\ ev[i + 1].v = ev[i].v

\* an infix expression whose left operand failed and whose right operand,
\* a call, was left alone
C2_Witness ==
    LET ev == Events
    IN  /\ Evaluated
        /\ \E j \in 1..Len(ev) :
              /\ IsEnter(ev, j)
              /\ ev[j].node.kind = "InfixExpression"
              /\ ev[j].node.Right.kind = "CallExpression"
              /\ j + 3 <= Len(ev)
              /\ IsExit(ev, j + 2) /\ ev[j + 2].v.type = "ERROR"
              /\ IsExit(ev, j + 3) /\ ev[j + 3].v = ev[j + 2].v

(***************************************************************************)
(* C1.  Return unwrap depth: when a return statement has evaluated its     *)
(* expression to v, the enclosing function call (or the program, when no   *)
(* function body encloses it) returns v itself, not a ReturnWrapper, and   *)
(* nothing else is evaluated or printed on the way out, wherever the       *)
(* statement sits in the body.                                             *)
(***************************************************************************)
\* the calls of Eval in progress when the one entered at k was made,
\* outermost first, k last
RECURSIVE AncestorsOf(_, _)
AncestorsOf(ev, k) ==
    IF ev[k].d = 0 THEN <<k>> ELSE Append(AncestorsOf(ev, ParentOf(ev, k)), k)

\* among them the one that is the program or a call evaluating its function's body
IsBoundary(ev, anc, n) ==
    \/ ev[anc[n]].node.kind = "Program"
    \/ /\ ev[anc[n]].node.kind = "CallExpression"
       /\ n < Len(anc)
       /\ ev[anc[n + 1]].node.kind = "BlockStatement"

BoundaryOf(ev, k) ==
    LET anc == AncestorsOf(ev, k)
        n == CHOOSE m \in 1..Len(anc) :
                /\ IsBoundary(ev, anc, m)
                /\ \A m2 \in (m + 1)..Len(anc) : ~IsBoundary(ev, anc, m2)
    IN  anc[n]

C1_ReturnUnwrap ==
    LET ev == Events
    IN  \A k \in 1..Len(ev) :
            (/\ IsEnter(ev, k)
             /\ ev[k].node.kind = "ReturnStatement"
             /\ ev[ExitOf(ev, k)].v.type = "RETURN_VALUE")
            => LET x == ExitOf(ev, k)
                   y == ExitOf(ev, BoundaryOf(ev, k))
               IN  /\ ev[y].v = ev[x].v.Value
                   /\ ev[y].v.type # "RETURN_VALUE"
                   /\ \A z \in x..y : IsExit(ev, z)

(***************************************************************************)
(* C8.  Evaluation order: the sub-expressions of a call (callee, then      *)
(* arguments), an array literal, an infix expression, an index expression  *)
(* and a hash literal (pair by pair, key before value) are evaluated in    *)
(* source order.                                                           *)
(***************************************************************************)
RECURSIVE FlattenPairs(_)
FlattenPairs(ps) ==
    IF ps = <<>> THEN <<>>
    ELSE <<Head(ps).key, Head(ps).value>> \o FlattenPairs(Tail(ps))

SourceOrder(node) ==
    CASE node.kind = "CallExpression" -> <<node.Func>> \o node.Args
      [] node.kind = "ArrayLiteral" -> node.Elements
      [] node.kind = "InfixExpression" -> <<node.Left, node.Right>>
      [] node.kind = "IndexExpression" -> <<node.Left, node.Index>>
      [] node.kind = "HashLiteral" -> FlattenPairs(node.Pairs)

\* the sub-expressions evaluated by the call entered at j, in the order of
\* their evaluation (a function's body is no sub-expression of the call)
EvaluatedOrder(ev, j) ==
    LET ch == ChildrenOf(ev, j)
        nodes == [i \in 1..Len(ch) |-> ev[ch[i]].node]
    IN  SelectSeq(nodes, LAMBDA n : n.kind # "BlockStatement")

C8_LeftToRight ==
    LET ev == Events
    IN  \A j \in 1..Len(ev) :
            (/\ IsEnter(ev, j)
             /\ ev[j].node.kind \in {"CallExpression", "ArrayLiteral", "InfixExpression",
                                     "IndexExpression", "HashLiteral"})
            => LET got == EvaluatedOrder(ev, j)
                   src == SourceOrder(ev[j].node)
               IN  /\ Len(got) <= Len(src)
                   /\ \A i \in 1..Len(got) : got[i] = src[i]

(***************************************************************************)
(* C7.  Hash literal duplicates: a hash literal whose keys are literals    *)
(* and whose values are integer literals evaluates to a Hash that holds,   *)
(* for each key, the value of the last pair of the source with that key.   *)
(***************************************************************************)
IsLiteral(node) == node.kind \in {"IntegerLiteral", "Boolean", "StringLiteral"}

\* the HashKey of the value of a literal
LiteralKey(node) ==
    CASE node.kind = "IntegerLiteral" -> [Type |-> "INTEGER", Value |-> node.Value]
      [] node.kind = "Boolean" ->
            [Type |-> "BOOLEAN", Value |-> IF node.Value THEN 1 ELSE 0]
      [] node.kind = "StringLiteral" -> [Type |-> "STRING", Value |-> StrCode(node.Value)]

C7_LastDuplicateWins ==
    LET ev == Events
    IN  \A j \in 1..Len(ev) :
            (/\ IsEnter(ev, j)
             /\ ev[j].node.kind = "HashLiteral"
             /\ \A i \in 1..Len(ev[j].node.Pairs) :
                    /\ IsLiteral(ev[j].node.Pairs[i].key)
                    /\ ev[j].node.Pairs[i].value.kind = "IntegerLiteral")
            => LET ps == ev[j].node.Pairs
                   h == ev[ExitOf(ev, j)].v
               IN  /\ h.type = "HASH"
                   /\ DOMAIN h.Pairs = {LiteralKey(ps[i].key) : i \in 1..Len(ps)}
                   /\ \A i \in 1..Len(ps) :
                        (\A i2 \in (i + 1)..Len(ps) :
                            LiteralKey(ps[i2].key) # LiteralKey(ps[i].key))
                        => h.Pairs[LiteralKey(ps[i].key)].Value
                           = Integer(ps[i].value.Value)

(***************************************************************************)
(* Infix expressions whose two operands were evaluated to values.          *)
(***************************************************************************)
IsValue(obj) == ~isNil(obj) /\ ~isPanic(obj) /\ obj.type # "ERROR"

InfixRuns(ev) ==
    {j \in 1..Len(ev) :
        /\ IsEnter(ev, j)
        /\ ev[j].node.kind = "InfixExpression"
        /\ Len(ChildrenOf(ev, j)) = 2
        /\ \A i \in 1..2 : IsValue(ev[ExitOf(ev, ChildrenOf(ev, j)[i])].v)}

LeftOf(ev, j) == ev[ExitOf(ev, ChildrenOf(ev, j)[1])].v
RightOf(ev, j) == ev[ExitOf(ev, ChildrenOf(ev, j)[2])].v
ResultOf(ev, j) == ev[ExitOf(ev, j)].v

IsErrorWith(obj, msg) == obj.type = "ERROR" /\ obj.Message = msg

MismatchMessage(l, op, r) == "type mismatch: " \o l.type \o " " \o op \o " " \o r.type
UnknownMessage(l, op, r) == "unknown operator: " \o l.type \o " " \o op \o " " \o r.type

C10_InfixOnStrings ==
    LET ev == Events
    IN  \A j \in InfixRuns(ev) :
            (LeftOf(ev, j).type = "STRING" /\ RightOf(ev, j).type = "STRING")
            => LET op == ev[j].node.Operator
                   l == LeftOf(ev, j)
                   r == RightOf(ev, j)
                   res == ResultOf(ev, j)
               IN  IF op = "+"
                   THEN /\ res.type = "STRING"
                        /\ res.Value = l.Value \o r.Value
                        /\ res.id \notin {l.id, r.id}
                   ELSE IsErrorWith(res, UnknownMessage(l, op, r))

(***************************************************************************)
(* C5.  Precedence correctness: a op2 b op1 c, with a, b, c integer        *)
(* literals or identifiers and op1, op2 among == != < > + - * /, parses    *)
(* to Infix(op2, a, Infix(op1, b, c)) when op1 stands higher than op2 on   *)
(* the ladder EQUALS < LESSGREATER < SUM < PRODUCT and to                  *)
(* Infix(op1, Infix(op2, a, b), c) otherwise.                              *)
(***************************************************************************)
Rank(op) ==
    CASE op \in {"==", "!="} -> 1
      [] op \in {"<", ">"} -> 2
      [] op \in {"+", "-"} -> 3
      [] op \in {"*", "/"} -> 4

IsOperandToken(t) == t.Type \in {"INT", "IDENTIFER"}

OperandNode(t) ==
    IF t.Type = "INT" THEN IntegerLiteral(ParseInt(t.Literal).val) ELSE Identifier(t.Literal)

\* the line is a op2 b op1 c, with or without a closing semicolon
IsPrecedenceInput ==
    /\ Len(input) \in {5, 6}
    /\ \A i \in {1, 3, 5} : IsOperandToken(input[i])
    /\ \A i \in {2, 4} : input[i].Type \in BinOps
    /\ Len(input) = 6 => input[6].Type = ";"

ExpectedTree ==
    LET a == OperandNode(input[1])
        b == OperandNode(input[3])
        c == OperandNode(input[5])
        op2 == input[2].Type
        op1 == input[4].Type
    IN  IF Rank(op1) > Rank(op2)
        THEN InfixExpression(op2, a, InfixExpression(op1, b, c))
        ELSE InfixExpression(op1, InfixExpression(op2, a, b), c)

C5_Precedence ==
    (ppc = "done" /\ IsPrecedenceInput)
    => /\ errors = <<>>
       /\ program = <<ExpressionStatement(ExpectedTree)>>

\* a line whose second operator binds tighter, and one of equal operators, parsed
C5_Witness ==
    /\ ppc = "done"
    /\ IsPrecedenceInput
    /\ Rank(input[4].Type) > Rank(input[2].Type)
    /\ program = <<ExpressionStatement(ExpectedTree)>>

(***************************************************************************)
(* C6.  Parser termination with missing semicolons: the scan forward for   *)
(* the ";" of a let or return statement comes to its end, also when no ";" *)
(* stands before EOF, and the statement is handed to ParseProgram, which   *)
(* goes on to its own end.                                                 *)
(***************************************************************************)
\* The loop that scans for ";" keeps turning.  Standing on EOF, a turn of it
\* leaves the parser as it is (nextToken gets EOF again): the loop is then
\* neither left nor any further, which is how it runs forever.
LiveSpec == Spec /\ WF_vars(ScanStep \/ ScanDone)

C6_ScanForSemicolonEnds == [](ppc = "scan" => <>(ppc = "advance"))

(***************************************************************************)
(* C4.  Closure capture: a function literal evaluated in scope S gives a   *)
(* function that holds S; each call of it runs its body in a scope that    *)
(* did not exist before and whose outer is S; every name is resolved along *)
(* the chain of outers of the scope it is evaluated in, with the bindings  *)
(* held at that moment, whatever the scopes of the callers bind; and when  *)
(* the call returns, every scope that existed before it holds what it held *)
(* then.                                                                   *)
(***************************************************************************)
\* the scope e and its outers, innermost first
RECURSIVE ScopeChain(_, _)
ScopeChain(h, e) == IF e = 0 THEN <<>> ELSE <<e>> \o ScopeChain(h, h[e].outer)

Binds(h, e, name) == name \in DOMAIN h[e].store

\* the scopes of the chain of e that bind name, as positions in the chain
Binders(h, e, name) ==
    {i \in 1..Len(ScopeChain(h, e)) : Binds(h, ScopeChain(h, e)[i], name)}

\* what name stands for in scope e: the binding of the innermost binder
Resolve(h, e, name) ==
    LET i == CHOOSE i \in Binders(h, e, name) : \A i2 \in Binders(h, e, name) : i <= i2
    IN  h[ScopeChain(h, e)[i]].store[name]

FunctionHoldsScope(tr, i) ==
    LET f == tr[ExitOf(tr, i)].v
    IN  f.type = "FUNCTION" /\ f.Env = tr[i].env

CallRunsInFreshScope(tr, i) ==
    /\ tr[i].env = Len(tr[i].before) + 1
    /\ Len(tr[i].h) = Len(tr[i].before) + 1
    /\ tr[i].h[tr[i].env].outer = tr[i].fn.Env
    /\ \A e \in 1..Len(tr[i].before) : tr[i].h[e] = tr[i].before[e]
    /\ i < Len(tr)
    /\ IsEnter(tr, i + 1)
    /\ tr[i + 1].node = tr[i].fn.Body
    /\ tr[i + 1].env = tr[i].env

NameResolvesLexically(tr, i) ==
    LET name == tr[i].node.Value
        v == tr[ExitOf(tr, i)].v
    IN  IF Binders(tr[i].heap, tr[i].env, name) # {}
        THEN v = Resolve(tr[i].heap, tr[i].env, name)
        ELSE IF Join(name) \in builtins
             THEN v = BuiltIn(Join(name))
             ELSE IsErrorWith(v, "identifier not found: " \o Join(name))

\* what is not a function's body is evaluated in the scope of what holds it
ScopeHandedDown(tr, i) ==
    (tr[i].d > 0 /\ tr[i - 1].k # "apply") => tr[i].env = tr[ParentOf(tr, i)].env

CallLeavesScopesAlone(tr, i) ==
    /\ Len(tr[i].after) >= Len(tr[i].before)
    /\ \A e \in 1..Len(tr[i].before) : tr[i].after[e] = tr[i].before[e]

C4_ClosureCapture ==
    \A i \in 1..Len(trace) :
        /\ (IsEnter(trace, i) /\ trace[i].node.kind = "FunctionLiteral")
           => FunctionHoldsScope(trace, i)
        /\ trace[i].k = "apply" => CallRunsInFreshScope(trace, i)
        /\ (IsEnter(trace, i) /\ trace[i].node.kind = "Identifier")
           => NameResolvesLexically(trace, i)
        /\ IsEnter(trace, i) => ScopeHandedDown(trace, i)
        /\ trace[i].k = "applied" => CallLeavesScopesAlone(trace, i)

\* a body that read a name bound in S only after the function was made, and
\* found a name unbound although the scope of a call in progress binds it
C4_Witness ==
    /\ Evaluated
    /\ \E c \in 1..Len(trace) : \E i \in (c + 1)..Len(trace) :
          /\ IsEnter(trace, c) /\ trace[c].node.kind = "FunctionLiteral"
          /\ IsEnter(trace, i) /\ trace[i].node.kind = "Identifier"
          /\ ~Binds(trace[c].heap, trace[c].env, trace[i].node.Value)
          /\ \E a \in (c + 1)..(i - 1) :
                /\ trace[a].k = "apply"
                /\ trace[a].fn = trace[ExitOf(trace, c)].v
                /\ trace[i].env = trace[a].env
          /\ trace[i].heap[trace[i].env].outer = trace[c].env
          /\ Binds(trace[i].heap, trace[c].env, trace[i].node.Value)
          /\ trace[ExitOf(trace, i)].v = trace[i].heap[trace[c].env].store[trace[i].node.Value]
    /\ \E j \in 1..Len(trace) : \E i \in (j + 1)..Len(trace) :
          /\ IsEnter(trace, j) /\ trace[j].node.kind = "BlockStatement"
          /\ ExitOf(trace, j) > i
          /\ IsEnter(trace, i) /\ trace[i].node.kind = "Identifier"
          /\ trace[i].env # trace[j].env
          /\ Binds(trace[i].heap, trace[j].env, trace[i].node.Value)
          /\ trace[ExitOf(trace, i)].v.type = "ERROR"


(***************************************************************************)
(* package object on its own: any caller making scopes, binding names in   *)
(* them and looking names up.  trace holds the operations that changed     *)
(* something, each with the scopes as they were before it; output holds    *)
(* what the last Get returned; lines counts the operations that followed   *)
(* the making of the first scope.                                          *)
(***************************************************************************)
MaxEnvs == 3
MaxOps == 4

EnvNames == {<<"a">>, <<"b">>}
EnvVals == {Integer(1), Integer(2)}

EnvInit ==
    /\ input = <<>>
    /\ pos = 1
    /\ errors = <<>>
    /\ program = <<>>
    /\ pending = NIL
    /\ ppc = "env"
    /\ heap = NewEnvironment(<<>>)
    /\ nid = 0
    /\ output = GoNil
    /\ trace = <<[op |-> "NewEnvironment", e |-> 0, name |-> <<>>, val |-> GoNil,
                  before |-> <<>>]>>
    /\ lines = 0

EnvOp(op, e, name, val) ==
    /\ lines < MaxOps
    /\ lines' = lines + 1
    /\ trace' = Append(trace, [op |-> op, e |-> e, name |-> name, val |-> val,
                               before |-> heap])
    /\ ppc' = "env"
    /\ UNCHANGED <<input, pos, errors, program, pending, nid, output>>

DoNewEnvironment ==
    /\ ppc \in {"env", "got"}
    /\ Len(heap) < MaxEnvs
    /\ heap' = NewEnvironment(heap)
    /\ EnvOp("NewEnvironment", 0, <<>>, GoNil)

DoNewClosedEnv ==
    /\ ppc \in {"env", "got"}
    /\ Len(heap) < MaxEnvs
    /\ \E outer \in 1..Len(heap) :
          /\ heap' = NewClosedEnv(heap, outer)
          /\ EnvOp("NewClosedEnv", outer, <<>>, GoNil)

DoSet ==
    /\ ppc \in {"env", "got"}
    /\ \E e \in 1..Len(heap) : \E name \in EnvNames : \E val \in EnvVals :
          /\ heap' = Set(heap, e, name, val)
          /\ EnvOp("Set", e, name, val)

DoGet ==
    /\ ppc = "env"
    /\ \E e \in 1..Len(heap) : \E name \in EnvNames :
          output' = [e |-> e, name |-> name] @@ Get(heap, e, name)
    /\ ppc' = "got"
    /\ UNCHANGED <<input, pos, errors, program, pending, heap, nid, trace, lines>>

EnvNext ==
    \/ DoNewEnvironment
    \/ DoNewClosedEnv
    \/ DoSet
    \/ DoGet

EnvSpec == EnvInit /\ [][EnvNext]_vars

(***************************************************************************)
(* C11.  Environment scoping: Set(n, v) on scope E changes E's binding of  *)
(* n and nothing else (no other name of E, no binding of another scope, no *)
(* outer), and Get(n) on E returns the value last Set for n in the nearest *)
(* scope, from E outward, in which n was ever Set, and reports n absent    *)
(* exactly when n was Set in no scope of that chain.                       *)
(***************************************************************************)
\* the scopes are numbered as they are made
Makes(tr) == {i \in 1..Len(tr) : tr[i].op \in {"NewEnvironment", "NewClosedEnv"}}

\* the operation that made scope e
MakerOf(tr, e) ==
    CHOOSE i \in Makes(tr) : Cardinality({j \in Makes(tr) : j <= i}) = e

\* the scope that scope e was closed over, 0 when it was made by NewEnvironment
OuterGiven(tr, e) == tr[MakerOf(tr, e)].e

SetsOf(tr, e, name) ==
    {i \in 1..Len(tr) : tr[i].op = "Set" /\ tr[i].e = e /\ tr[i].name = name}

LastSet(tr, e, name) ==
    tr[CHOOSE i \in SetsOf(tr, e, name) : \A j \in SetsOf(tr, e, name) : j <= i].val

RECURSIVE Expected(_, _, _)
Expected(tr, e, name) ==
    IF SetsOf(tr, e, name) # {}
    THEN [ok |-> TRUE, obj |-> LastSet(tr, e, name)]
    ELSE IF OuterGiven(tr, e) # 0
         THEN Expected(tr, OuterGiven(tr, e), name)
         ELSE [ok |-> FALSE, obj |-> GoNil]

SetChangesOneBinding(before, after, e, name, val) ==
    /\ Len(after) = Len(before)
    /\ \A e2 \in 1..Len(before) : e2 # e => after[e2] = before[e2]
    /\ after[e].outer = before[e].outer
    /\ DOMAIN after[e].store = DOMAIN before[e].store \cup {name}
    /\ \A n \in DOMAIN before[e].store : n # name => after[e].store[n] = before[e].store[n]
    /\ after[e].store[name] = val

C11_EnvScoping ==
    /\ (ppc = "env" /\ trace # <<>> /\ trace[Len(trace)].op = "Set")
       => SetChangesOneBinding(trace[Len(trace)].before, heap, trace[Len(trace)].e,
                               trace[Len(trace)].name, trace[Len(trace)].val)
    /\ ppc = "got"
       => /\ output.ok = Expected(trace, output.e, output.name).ok
          /\ output.ok => output.obj = Expected(trace, output.e, output.name).obj

\* a Get that found the name in the scope asked, where it had been Set twice
\* to different values, after the outer scope had bound it to something else
C11_Witness ==
    /\ ppc = "got"
    /\ output.ok
    /\ heap[output.e].outer # 0
    /\ \E i, j \in SetsOf(trace, output.e, output.name) :
          /\ i < j
          /\ trace[i].val # trace[j].val
          /\ output.obj = trace[j].val
    /\ \E i \in SetsOf(trace, heap[output.e].outer, output.name) :
          /\ trace[i].val # output.obj
          /\ heap[heap[output.e].outer].store[output.name] = trace[i].val

(***************************************************************************)
(* C12.  Block boundaries: a block of the parsed program ends on its own   *)
(* closing brace (on EOF when it has none), whether or not the let and     *)
(* return statements in it end with ";", and its statements are the        *)
(* statements written between its braces, so that what follows the brace   *)
(* is left to the construct the block is part of.                          *)
(***************************************************************************)
\* the "{" that open a block: those of an if, an else or a function literal
BlockStarts(toks) ==
    {i \in 2..Len(toks) : toks[i].Type = "{" /\ toks[i - 1].Type \in {")", "ELSE"}}

BracesIn(toks, i, j, t) == Cardinality({k \in i..j : toks[k].Type = t})

\* the "}" after the "{" at i with as many "{" as "}" in between
Closers(toks, i) ==
    {j \in (i + 1)..Len(toks) :
        /\ toks[j].Type = "}"
        /\ BracesIn(toks, i + 1, j - 1, "{") = BracesIn(toks, i + 1, j - 1, "}")}

\* the position of the brace that closes the "{" at i, of EOF with none
OwnBrace(toks, i) ==
    IF Closers(toks, i) = {} THEN Len(toks) + 1
    ELSE CHOOSE j \in Closers(toks, i) : \A j2 \in Closers(toks, i) : j <= j2

ParserAt(i) == [pos |-> i, errors |-> <<>>, div |-> FALSE, derr |-> <<>>]

\* the statements the parser makes of the tokens between the braces alone
Written(toks, i) ==
    blockLoop(SubSeq(toks, i + 1, OwnBrace(toks, i) - 1), ParserAt(1), <<>>).list

RECURSIVE BlocksOf(_)
RECURSIVE BlocksOfAll(_)
\* the blocks in the tree of node
BlocksOf(node) ==
    CASE node.kind \in {"Program", "BlockStatement"} ->
            (IF node.kind = "BlockStatement" THEN {node} ELSE {})
            \cup BlocksOfAll(node.Statements)
      [] node.kind = "ExpressionStatement" -> BlocksOf(node.Expression)
      [] node.kind = "LetStatement" -> BlocksOf(node.Value)
      [] node.kind = "ReturnStatement" -> BlocksOf(node.ReturnValue)
      [] node.kind = "PrefixExpression" -> BlocksOf(node.Right)
      [] node.kind = "InfixExpression" -> BlocksOf(node.Left) \cup BlocksOf(node.Right)
      [] node.kind = "IfExpression" ->
            BlocksOfAll(<<node.Condition, node.Consequence, node.Alternative>>)
      [] node.kind = "FunctionLiteral" -> BlocksOf(node.Body)
      [] node.kind = "CallExpression" -> BlocksOfAll(<<node.Func>> \o node.Args)
      [] node.kind = "ArrayLiteral" -> BlocksOfAll(node.Elements)
      [] node.kind = "IndexExpression" -> BlocksOf(node.Left) \cup BlocksOf(node.Index)
      [] node.kind = "HashLiteral" -> BlocksOfAll(FlattenPairs(node.Pairs))
      [] OTHER -> {}

BlocksOfAll(nodes) ==
    IF nodes = <<>> THEN {} ELSE BlocksOf(Head(nodes)) \cup BlocksOfAll(Tail(nodes))

\* the block that parseBlockStatement makes at the "{" at i is in the program
ParsedBlockAt(i) ==
    parseBlockStatement(input, ParserAt(i)).node \in BlocksOf(Program(program))

EndsOnOwnBrace(toks, i) ==
    /\ parseBlockStatement(toks, ParserAt(i)).p.pos = OwnBrace(toks, i)
    /\ parseBlockStatement(toks, ParserAt(i)).node.Statements = Written(toks, i)

C12_BlockBoundaries ==
    ppc = "done" =>
        \A i \in BlockStarts(input) : ParsedBlockAt(i) => EndsOnOwnBrace(input, i)

(***************************************************************************)
(* C13.  Errors are never stored: whatever lines have been evaluated in    *)
(* the top-level environment, no name of any environment is bound to an    *)
(* Error, and no Array has an Error among its elements, no Hash has one as *)
(* a key or a value, and no ReturnValue wraps one; an Error is only ever   *)
(* what an evaluation returns.                                             *)
(***************************************************************************)
\* the objects that obj keeps: elements, keys and values, the wrapped value
Kept(obj) ==
    CASE obj.type = "ARRAY" -> {obj.Elements[i] : i \in 1..Len(obj.Elements)}
      [] obj.type = "HASH" ->
            {obj.Pairs[hk].Key : hk \in DOMAIN obj.Pairs}
            \cup {obj.Pairs[hk].Value : hk \in DOMAIN obj.Pairs}
      [] obj.type = "RETURN_VALUE" -> {obj.Value}
      [] OTHER -> {}

RECURSIVE KeepsError(_)
KeepsError(obj) == \E x \in Kept(obj) : x.type = "ERROR" \/ KeepsError(x)

NoErrorBound(h) ==
    \A e \in 1..Len(h) : \A name \in DOMAIN h[e].store :
        h[e].store[name].type # "ERROR" /\ ~KeepsError(h[e].store[name])

C13_ErrorsNeverStored ==
    /\ NoErrorBound(heap)
    /\ ~KeepsError(output)
    /\ \A i \in 1..Len(trace) :
          /\ trace[i].k = "enter" => NoErrorBound(trace[i].heap)
          /\ trace[i].k = "apply" => NoErrorBound(trace[i].h)
          /\ trace[i].k = "applied" => NoErrorBound(trace[i].after)
          /\ trace[i].k = "exit" => ~KeepsError(trace[i].v)

\* a second line whose let statement ended in an Error that arose among the
\* elements of an array or the arguments of a call, with arrays or hashes
\* bound in the environment by then
C13_Witness ==
    /\ Evaluated
    /\ lines > 1
    /\ output.type = "ERROR"
    /\ \E e \in 1..Len(heap) : \E name \in DOMAIN heap[e].store :
          heap[e].store[name].type \in {"ARRAY", "HASH"}
    /\ \E j \in 1..Len(trace) : \E i \in (j + 1)..Len(trace) :
          /\ IsEnter(trace, j) /\ trace[j].node.kind = "LetStatement"
          /\ trace[ExitOf(trace, j)].v = output
          /\ IsEnter(trace, i)
          /\ trace[i].node.kind \in {"ArrayLiteral", "CallExpression", "HashLiteral"}
          /\ i < ExitOf(trace, j)
          /\ trace[ExitOf(trace, i)].v = output
          /\ \E c \in 1..Len(ChildrenOf(trace, i)) :
                trace[ExitOf(trace, ChildrenOf(trace, i)[c])].v = output

====
